---- MODULE Spec2Model ----
(***************************************************************************)
(* A model of scripts/compare-benchmarks.py: the metric extractor          *)
(* (get_metric_ratio), the comparator (compare_results), the regression    *)
(* checker (check_regression) and the command-line pipeline (main).        *)
(*                                                                         *)
(* JSON values are tagged records, so that values of different Python      *)
(* types can be told apart:                                                *)
(*   [k |-> "num", v |-> n]   a JSON number n                              *)
(*   [k |-> "null", v |-> 0]  JSON null / Python None                      *)
(*   [k |-> "str", v |-> 0]   a JSON string (no arithmetic, no .get)       *)
(*   [k |-> "absent", v |-> 0] the key is not in the mapping               *)
(* A raised exception is [k |-> <exception name>, v |-> 0].                *)
(* Ratios are integers: on them the float arithmetic of the code is exact  *)
(* for the difference, and change_pct is kept as the exact fraction        *)
(* [n, d] (d > 0, lowest terms) of change * 100 / baseline.                *)
(***************************************************************************)
EXTENDS Integers, Sequences, FiniteSets, TLC

VARIABLES pc, args, files, baseline, current, ratio, comparisons,
          regressions, stdout, outFile, steps, exitCode, uncaught

vars == <<pc, args, files, baseline, current, ratio, comparisons,
          regressions, stdout, outFile, steps, exitCode, uncaught>>

(***************************************************************************)
(* Bounds of the model.                                                    *)
(***************************************************************************)
\* the largest ratio a document holds
MaxRatio == 4
\* the longest `metrics` mapping of a document
MaxMetrics == 3
\* the largest --fail-on-regression threshold, in quarters (2 = 0.5 = 50%)
MaxThresholdQ == 2

(***************************************************************************)
(* JSON values.                                                            *)
(***************************************************************************)
Num(n) == [k |-> "num", v |-> n]
Null == [k |-> "null", v |-> 0]
Str == [k |-> "str", v |-> 0]
Absent == [k |-> "absent", v |-> 0]
Raise(e) == [k |-> e, v |-> 0]

IsRaise(x) == x.k \in {"AttributeError", "TypeError", "OSError"}

\* a value of a `metrics` mapping: a scalar, or a mapping with an optional
\* 'ratio' key (k = "dict"; ratio is Absent when the key is missing)
Scalar(x) == [k |-> x.k, v |-> x.v, ratio |-> Absent]
Dict(r) == [k |-> "dict", v |-> 0, ratio |-> r]
\* the {} that data['metrics'].get(metric, {}) defaults to
EmptyDict == Dict(Absent)

\* the `summary` and `metrics` values of a document; k is "absent" (no such
\* key), "dict" (a mapping) or "other" (a JSON number or null: neither a
\* mapping nor iterable)
NoSummary == [k |-> "absent", disciplineAdvantageRatio |-> Absent,
              safetyAdvantageRatio |-> Absent]
OtherSummary == [k |-> "other", disciplineAdvantageRatio |-> Absent,
                 safetyAdvantageRatio |-> Absent]
SummaryDict(d, s) == [k |-> "dict", disciplineAdvantageRatio |-> d,
                      safetyAdvantageRatio |-> s]
NoMetrics == [k |-> "absent", items |-> <<>>]
OtherMetrics == [k |-> "other", items |-> <<>>]
MetricsDict(items) == [k |-> "dict", items |-> items]

Doc(s, m) == [summary |-> s, metrics |-> m]

\* `key in data`
HasKey(part) == part.k # "absent"

(***************************************************************************)
(* dict.get: the value of a key, None (or the default) when it is missing; *)
(* AttributeError on a value that is no mapping.                           *)
(***************************************************************************)
summary_get(summary, key) ==
  IF summary.k # "dict" THEN Raise("AttributeError")
  ELSE LET x == IF key = "disciplineAdvantageRatio"
                THEN summary.disciplineAdvantageRatio
                ELSE summary.safetyAdvantageRatio
       IN IF x.k = "absent" THEN Null ELSE x

metrics_get(metrics, metric, default) ==
  IF metrics.k # "dict" THEN Raise("AttributeError")
  ELSE LET hit == {i \in 1..Len(metrics.items) : metrics.items[i].name = metric}
       IN IF hit = {} THEN default
          ELSE metrics.items[CHOOSE i \in hit : TRUE].data

ratio_get(metric_data) ==
  IF metric_data.ratio.k = "absent" THEN Null ELSE metric_data.ratio

(***************************************************************************)
(* get_metric_ratio(data, metric): a scalar, Null for "no value", or the   *)
(* exception it raises.                                                    *)
(***************************************************************************)
get_metric_ratio_metrics_first(data, metric) ==
  IF HasKey(data.metrics) /\ data.metrics.k = "dict"
     /\ \E i \in 1..Len(data.metrics.items) : data.metrics.items[i].name = metric
  THEN LET metric_data == metrics_get(data.metrics, metric, EmptyDict)
       IN IF metric_data.k = "dict" THEN ratio_get(metric_data)
          ELSE [k |-> metric_data.k, v |-> metric_data.v]
  ELSE IF HasKey(data.summary) /\ metric = "EffectDiscipline"
  THEN summary_get(data.summary, "disciplineAdvantageRatio")
  ELSE IF HasKey(data.summary) /\ metric = "Safety"
  THEN summary_get(data.summary, "safetyAdvantageRatio")
  ELSE Null

get_metric_ratio(data, metric) ==
  IF HasKey(data.summary) /\ metric = "EffectDiscipline"
  THEN summary_get(data.summary, "disciplineAdvantageRatio")
  ELSE IF HasKey(data.summary) /\ metric = "Safety"
  THEN summary_get(data.summary, "safetyAdvantageRatio")
  ELSE IF HasKey(data.metrics)
  THEN LET metric_data == metrics_get(data.metrics, metric, EmptyDict)
       IN IF IsRaise(metric_data) THEN metric_data
          ELSE IF metric_data.k = "dict" THEN ratio_get(metric_data)
          ELSE [k |-> metric_data.k, v |-> metric_data.v]
  ELSE Null

(***************************************************************************)
(* Arithmetic of compare_results.                                          *)
(***************************************************************************)
Abs(n) == IF n < 0 THEN -n ELSE n

RECURSIVE GCD(_, _)
GCD(a, b) == IF b = 0 THEN a ELSE GCD(b, a % b)

\* the fraction n / d (d # 0) in lowest terms with a positive denominator
Rat(n, d) ==
  LET g == GCD(Abs(n), Abs(d))
      sgn == IF d < 0 THEN -1 ELSE 1
  IN [n |-> sgn * (n \div g), d |-> sgn * (d \div g)]

\* (change / baseline_ratio) * 100 if baseline_ratio != 0 else 0
change_pct_nonzero_on_zero_baseline(change, baseline_ratio) ==
  IF baseline_ratio # 0 THEN Rat(change * 100, baseline_ratio)
  ELSE Rat(change * 100, 1)

change_pct_of(change, baseline_ratio) ==
  IF baseline_ratio # 0 THEN Rat(change * 100, baseline_ratio) ELSE Rat(0, 1)

\* current_ratio - baseline_ratio raises TypeError unless both are numbers
CanSubtract(baseline_ratio, current_ratio) ==
  baseline_ratio.k = "num" /\ current_ratio.k = "num"

\* the MetricComparison the code builds from two extracted ratios
make_entry(metric, baseline_ratio, current_ratio) ==
  LET change == current_ratio.v - baseline_ratio.v
  IN [metric |-> metric, baseline |-> baseline_ratio, current |-> current_ratio,
      change |-> change,
      change_pct |-> change_pct_of(change, baseline_ratio.v),
      improved |-> change > 0]

\* comparisons[metric] = entry on an insertion-ordered dict
dict_set(comps, entry) ==
  IF \E i \in 1..Len(comps) : comps[i].metric = entry.metric
  THEN [i \in 1..Len(comps) |->
          IF comps[i].metric = entry.metric THEN entry ELSE comps[i]]
  ELSE Append(comps, entry)

Returned(value) == [raised |-> "none", value |-> value]
Raised(e) == [raised |-> e, value |-> <<>>]

(***************************************************************************)
(* One metric of compare_results: extract from both documents, and add an  *)
(* entry when both ratios are present.                                     *)
(***************************************************************************)
compare_metric(comps, base, cur, metric) ==
  LET baseline_ratio == get_metric_ratio(base, metric)
      current_ratio == get_metric_ratio(cur, metric)
  IN IF IsRaise(baseline_ratio) THEN Raised(baseline_ratio.k)
     ELSE IF IsRaise(current_ratio) THEN Raised(current_ratio.k)
     ELSE IF baseline_ratio.k # "null" /\ current_ratio.k # "null"
     THEN IF CanSubtract(baseline_ratio, current_ratio)
          THEN Returned(dict_set(comps, make_entry(metric, baseline_ratio, current_ratio)))
          ELSE Raised("TypeError")
     ELSE Returned(comps)

\* for metric_name in baseline['metrics']: ... (from item i on)
RECURSIVE compare_all(_, _, _, _)
compare_all(comps, base, cur, i) ==
  IF i > Len(base.metrics.items) THEN Returned(comps)
  ELSE LET r == compare_metric(comps, base, cur, base.metrics.items[i].name)
       IN IF r.raised # "none" THEN r
          ELSE compare_all(r.value, base, cur, i + 1)

\* the `metric` argument: given = FALSE is None
NoMetric == [given |-> FALSE, name |-> ""]
Metric(name) == [given |-> TRUE, name |-> name]

\* `if metric:` is false for None and for the empty string
Truthy(metric) == metric.given /\ metric.name # ""

(***************************************************************************)
(* compare_results(baseline, current, metric)                              *)
(***************************************************************************)
compare_results_no_metrics_test(base, cur, metric) ==
  IF Truthy(metric) THEN compare_metric(<<>>, base, cur, metric.name)
  ELSE IF HasKey(base.metrics)
  THEN IF base.metrics.k # "dict" THEN Raised("TypeError")
       ELSE compare_all(<<>>, base, cur, 1)
  ELSE Returned(<<>>)

compare_results(base, cur, metric) ==
  IF Truthy(metric) THEN compare_metric(<<>>, base, cur, metric.name)
  ELSE IF HasKey(base.metrics) /\ HasKey(cur.metrics)
  THEN IF base.metrics.k # "dict" THEN Raised("TypeError")
       ELSE compare_all(<<>>, base, cur, 1)
  ELSE Returned(<<>>)

(***************************************************************************)
(* check_regression(comparisons, threshold).  The threshold is a number of *)
(* quarters (q / 4), so threshold * 100 is 25 * q, exactly.                *)
(***************************************************************************)
\* abs(x) > threshold * 100 for the fraction x
AbsGreater(x, q) == Abs(x.n) > 25 * q * x.d

\* Python's fixed-point formatting of a fraction to `digits` decimals
\* (round half to even), as the integer of its last digit's unit
Pow10(digits) == IF digits = 3 THEN 1000 ELSE IF digits = 1 THEN 10 ELSE 1

Fmt(x, digits) ==
  LET num == Abs(x.n) * Pow10(digits)
      qt == num \div x.d
      rem == num % x.d
      up == 2 * rem > x.d \/ (2 * rem = x.d /\ qt % 2 = 1)
      mag == IF up THEN qt + 1 ELSE qt
  IN IF x.n < 0 THEN -mag ELSE mag

\* f"{metric}: {baseline:.3f} -> {current:.3f} ({change_pct:.1f}%)"
description(data) ==
  [metric |-> data.metric,
   baseline |-> Fmt(Rat(data.baseline.v, 1), 3),
   current |-> Fmt(Rat(data.current.v, 1), 3),
   change_pct |-> Fmt(data.change_pct, 1)]

is_regression(data, q) ==
  data.change < 0 /\ AbsGreater(data.change_pct, q)

RECURSIVE check_regression_stop_at_first(_, _)
check_regression_stop_at_first(comps, q) ==
  IF comps = <<>> THEN <<>>
  ELSE IF is_regression(Head(comps), q) THEN <<description(Head(comps))>>
  ELSE check_regression_stop_at_first(Tail(comps), q)

RECURSIVE check_regression(_, _)
check_regression(comps, q) ==
  IF comps = <<>> THEN <<>>
  ELSE IF is_regression(Head(comps), q)
       THEN <<description(Head(comps))>> \o check_regression(Tail(comps), q)
       ELSE check_regression(Tail(comps), q)

(***************************************************************************)
(* load_json(path), on the state of the file at that path.                 *)
(***************************************************************************)
EmptyDoc == Doc(NoSummary, NoMetrics)
\* the state of the file at a path: k is
\*   "missing"      no such file (open raises FileNotFoundError)
\*   "notdir"       the path does not exist because a component of it is a
\*                  regular file (open raises NotADirectoryError)
\*   "directory"    the path is a directory (open raises IsADirectoryError)
\*   "unreadable"   no read permission (open raises PermissionError)
\*   "undecodable"  bytes that are not UTF-8 (json.load raises UnicodeDecodeError)
\*   "invalid"      text that is not JSON (json.load raises JSONDecodeError)
\*   "json"         a JSON document
MissingFile == [k |-> "missing", doc |-> EmptyDoc]
NotADirFile == [k |-> "notdir", doc |-> EmptyDoc]
DirectoryFile == [k |-> "directory", doc |-> EmptyDoc]
UnreadableFile == [k |-> "unreadable", doc |-> EmptyDoc]
UndecodableFile == [k |-> "undecodable", doc |-> EmptyDoc]
InvalidFile == [k |-> "invalid", doc |-> EmptyDoc]
JsonFile(doc) == [k |-> "json", doc |-> doc]

load_json(file) ==
  IF file.k = "missing" THEN Raised("FileNotFoundError")
  ELSE IF file.k = "notdir" THEN Raised("NotADirectoryError")
  ELSE IF file.k = "directory" THEN Raised("IsADirectoryError")
  ELSE IF file.k = "unreadable" THEN Raised("PermissionError")
  ELSE IF file.k = "undecodable" THEN Raised("UnicodeDecodeError")
  ELSE IF file.k = "invalid" THEN Raised("JSONDecodeError")
  ELSE [raised |-> "none", value |-> file.doc]

(***************************************************************************)
(* print_comparison(comparisons): the lines it prints.                     *)
(***************************************************************************)
Line(t) == [t |-> t]

table_row(data) ==
  [t |-> "row",
   indicator |-> IF data.improved THEN "+" ELSE IF data.change < 0 THEN "-" ELSE " ",
   metric |-> data.metric,
   baseline |-> Fmt(Rat(data.baseline.v, 1), 3),
   current |-> Fmt(Rat(data.current.v, 1), 3),
   change |-> Fmt(Rat(data.change, 1), 3),
   with_pct |-> data.change_pct.n # 0,
   change_pct |-> Fmt(data.change_pct, 1)]

print_comparison(comps) ==
  <<Line("blank"), Line("Benchmark Comparison Results"), Line("===="),
    Line("Metric Baseline Current Change"), Line("----")>>
  \o [i \in 1..Len(comps) |-> table_row(comps[i])]
  \o <<Line("----")>>

(***************************************************************************)
(* Inputs.                                                                 *)
(***************************************************************************)
Values == {0, MaxRatio - 1, MaxRatio}

Names == {"EffectDiscipline", "Safety", "Throughput"}
PlainNames == {"EffectDiscipline", "Throughput"}

\* the insertion-ordered mappings of at most n items, keys in K, values in D
Mappings(K, D, n) ==
  UNION {{m \in [1..len -> [name : K, data : D]] :
            \A i, j \in 1..len : i < j => m[i].name # m[j].name} : len \in 0..n}

NoThreshold == [given |-> FALSE, q |-> 0]
Threshold(q) == [given |-> TRUE, q |-> q]
NoOutput == [given |-> FALSE, path |-> ""]
Output(path) == [given |-> TRUE, path |-> path]

Args(metric, threshold, output) ==
  [baseline |-> "baseline.json", current |-> "current.json", metric |-> metric,
   fail_on_regression |-> threshold, output |-> output]

\* what happens when the file at args.output is written:
\*   "ok"                open and json.dump succeed
\*   "unopenable"        open(args.output, 'w') raises OSError (missing
\*                       directory, no permission): the path is left as it was
\*   "fails_after_open"  open creates or truncates the file, then json.dump or
\*                       the closing flush raises OSError (disk full, I/O error)
OutputStates == {"ok", "unopenable", "fails_after_open"}
NoFiles == [baseline |-> MissingFile, current |-> MissingFile, output |-> "unopenable"]
Unset == [k |-> "unset", v |-> 0]
\* the file at args.output: written is TRUE once open(..., 'w') has created or
\* truncated it, complete once json.dump has written all of the comparisons;
\* content is the entries whose text is wholly in the file
NoOutFile == [written |-> FALSE, complete |-> FALSE, content |-> <<>>]

\* documents for get_metric_ratio
RatioSummaryValues == {Absent, Null, Str, Num(MaxRatio - 1)}
RatioMetricValues == {Scalar(Num(MaxRatio)), Scalar(Null), Scalar(Str),
                      Dict(Absent), Dict(Num(MaxRatio))}
RatioDocs ==
  {Doc(s, m) :
     s \in {NoSummary, OtherSummary}
           \cup {SummaryDict(d, sf) : d \in RatioSummaryValues, sf \in RatioSummaryValues},
     m \in {NoMetrics, OtherMetrics}
           \cup {MetricsDict(items) : items \in Mappings(Names, RatioMetricValues, MaxMetrics)}}
RatioMetricNames == Names \cup {"Latency"}

\* documents for compare_results
CompareSummaries == {NoSummary, OtherSummary, SummaryDict(Absent, Absent),
                     SummaryDict(Num(MaxRatio - 1), Absent)}
BaselineMetricValues == {Scalar(Num(n)) : n \in Values} \cup {Scalar(Str)}
CurrentMetricValues == {Scalar(Num(n)) : n \in Values \ {0}} \cup {Scalar(Str)}
CompareDocs(D) ==
  {Doc(s, m) :
     s \in CompareSummaries,
     m \in {NoMetrics, OtherMetrics}
           \cup {MetricsDict(items) : items \in Mappings(PlainNames, D, MaxMetrics)}}
CompareMetrics == {NoMetric, Metric(""), Metric("EffectDiscipline"), Metric("Throughput")}

\* comparison sets for check_regression: what compare_results can return
RegressEntries ==
  {make_entry(name, Num(b), Num(c)) : name \in Names, b \in Values, c \in Values}
RegressSets ==
  UNION {{m \in [1..len -> RegressEntries] :
            \A i, j \in 1..len : i < j => m[i].metric # m[j].metric}
         : len \in 0..MaxMetrics}
Thresholds == {Threshold(q) : q \in -1..MaxThresholdQ}

(***************************************************************************)
(* get_metric_ratio on its own.                                            *)
(***************************************************************************)
InitRatio ==
  /\ pc = "get_metric_ratio"
  /\ baseline \in RatioDocs
  /\ \E name \in RatioMetricNames : args = Args(Metric(name), NoThreshold, NoOutput)
  /\ files = NoFiles /\ current = EmptyDoc /\ ratio = Unset
  /\ comparisons = <<>> /\ regressions = <<>> /\ stdout = <<>>
  /\ outFile = NoOutFile /\ steps = <<>> /\ exitCode = -1 /\ uncaught = "none"

CallRatio ==
  /\ pc = "get_metric_ratio"
  /\ ratio' = get_metric_ratio(baseline, args.metric.name)
  /\ pc' = "returned"
  /\ UNCHANGED <<args, files, baseline, current, comparisons, regressions,
                 stdout, outFile, steps, exitCode, uncaught>>

SpecRatio == InitRatio /\ [][CallRatio]_vars

(***************************************************************************)
(* compare_results on its own.                                             *)
(***************************************************************************)
InitCompare ==
  /\ pc = "compare_results"
  /\ baseline \in CompareDocs(BaselineMetricValues)
  /\ current \in CompareDocs(CurrentMetricValues)
  /\ \E metric \in CompareMetrics : args = Args(metric, NoThreshold, NoOutput)
  /\ files = NoFiles /\ ratio = Unset
  /\ comparisons = <<>> /\ regressions = <<>> /\ stdout = <<>>
  /\ outFile = NoOutFile /\ steps = <<>> /\ exitCode = -1 /\ uncaught = "none"

CallCompare ==
  /\ pc = "compare_results"
  /\ LET r == compare_results(baseline, current, args.metric)
     IN /\ comparisons' = r.value
        /\ uncaught' = r.raised
        /\ pc' = IF r.raised = "none" THEN "returned" ELSE "raised"
  /\ UNCHANGED <<args, files, baseline, current, ratio, regressions,
                 stdout, outFile, steps, exitCode>>

SpecCompare == InitCompare /\ [][CallCompare]_vars

(***************************************************************************)
(* check_regression on its own.                                            *)
(***************************************************************************)
InitRegress ==
  /\ pc = "check_regression"
  /\ comparisons \in RegressSets
  /\ \E threshold \in Thresholds : args = Args(NoMetric, threshold, NoOutput)
  /\ files = NoFiles /\ baseline = EmptyDoc /\ current = EmptyDoc /\ ratio = Unset
  /\ regressions = <<>> /\ stdout = <<>>
  /\ outFile = NoOutFile /\ steps = <<>> /\ exitCode = -1 /\ uncaught = "none"

CallRegress ==
  /\ pc = "check_regression"
  /\ regressions' = check_regression(comparisons, args.fail_on_regression.q)
  /\ pc' = "returned"
  /\ UNCHANGED <<args, files, baseline, current, ratio, comparisons,
                 stdout, outFile, steps, exitCode, uncaught>>

SpecRegress == InitRegress /\ [][CallRegress]_vars

(***************************************************************************)
(* main(): the pipeline, one action per step.  The arguments are parsed    *)
(* and the files are in some state when it starts.                         *)
(***************************************************************************)
MainMetricValues == {Scalar(Num(n)) : n \in Values \ {0}}
MainDocs ==
  {Doc(NoSummary, m) :
     m \in {NoMetrics, OtherMetrics}
           \cup {MetricsDict(items) : items \in Mappings(PlainNames, MainMetricValues, MaxMetrics)}}
  \cup {Doc(SummaryDict(Num(n), Absent), NoMetrics) : n \in Values \ {0}}
MainFiles == {MissingFile, NotADirFile, DirectoryFile, UnreadableFile, UndecodableFile,
              InvalidFile} \cup {JsonFile(d) : d \in MainDocs}
MainMetrics == {NoMetric, Metric(""), Metric("EffectDiscipline"), Metric("Throughput")}
MainThresholds == {NoThreshold} \cup {Threshold(q) : q \in 0..MaxThresholdQ}
MainOutputs == {NoOutput, Output(""), Output("comparison.json")}

Init ==
  /\ pc = "load_baseline"
  /\ args \in {Args(m, t, o) : m \in MainMetrics, t \in MainThresholds, o \in MainOutputs}
  /\ files \in [baseline : MainFiles, current : MainFiles, output : OutputStates]
  /\ baseline = EmptyDoc /\ current = EmptyDoc /\ ratio = Unset
  /\ comparisons = <<>> /\ regressions = <<>> /\ stdout = <<>>
  /\ outFile = NoOutFile /\ steps = <<>> /\ exitCode = -1 /\ uncaught = "none"

\* print(...); sys.exit(1)
Fail(line) ==
  /\ stdout' = Append(stdout, line)
  /\ exitCode' = 1
  /\ pc' = "exited"
  /\ UNCHANGED uncaught

\* an exception that main() does not catch: traceback, exit status 1
Crash(e) ==
  /\ uncaught' = e
  /\ exitCode' = 1
  /\ pc' = "exited"
  /\ UNCHANGED stdout

\* `if args.output:` is false for None and for the empty string
OutputRequested(output) == output.given /\ output.path # ""

LoadBaseline ==
  /\ pc = "load_baseline"
  /\ steps' = Append(steps, "load_baseline")
  /\ LET r == load_json(files.baseline)
     IN IF r.raised = "FileNotFoundError"
        THEN Fail([t |-> "Error: Baseline file not found", a |-> args.baseline])
             /\ UNCHANGED baseline
        ELSE IF r.raised = "JSONDecodeError"
        THEN Fail([t |-> "Error: Invalid JSON in baseline file", a |-> r.raised])
             /\ UNCHANGED baseline
        ELSE IF r.raised # "none"
        THEN Crash(r.raised) /\ UNCHANGED baseline
        ELSE /\ baseline' = r.value
             /\ pc' = "load_current"
             /\ UNCHANGED <<stdout, exitCode, uncaught>>
  /\ UNCHANGED <<args, files, current, ratio, comparisons, regressions, outFile>>

LoadCurrent ==
  /\ pc = "load_current"
  /\ steps' = Append(steps, "load_current")
  /\ LET r == load_json(files.current)
     IN IF r.raised = "FileNotFoundError"
        THEN Fail([t |-> "Error: Current file not found", a |-> args.current])
             /\ UNCHANGED current
        ELSE IF r.raised = "JSONDecodeError"
        THEN Fail([t |-> "Error: Invalid JSON in current file", a |-> r.raised])
             /\ UNCHANGED current
        ELSE IF r.raised # "none"
        THEN Crash(r.raised) /\ UNCHANGED current
        ELSE /\ current' = r.value
             /\ pc' = "compare"
             /\ UNCHANGED <<stdout, exitCode, uncaught>>
  /\ UNCHANGED <<args, files, baseline, ratio, comparisons, regressions, outFile>>

\* Compare without the sys.exit(1) on an empty comparison set
Compare_continues_on_empty ==
  /\ pc = "compare"
  /\ steps' = Append(steps, "compare_results")
  /\ LET r == compare_results(baseline, current, args.metric)
     IN IF r.raised # "none"
        THEN Crash(r.raised) /\ UNCHANGED comparisons
        ELSE /\ comparisons' = r.value
             /\ stdout' = IF r.value = <<>>
                          THEN Append(stdout, Line("No comparable metrics found"))
                          ELSE stdout
             /\ pc' = "print"
             /\ UNCHANGED <<exitCode, uncaught>>
  /\ UNCHANGED <<args, files, baseline, current, ratio, regressions, outFile>>

Compare ==
  /\ pc = "compare"
  /\ steps' = Append(steps, "compare_results")
  /\ LET r == compare_results(baseline, current, args.metric)
     IN IF r.raised # "none"
        THEN Crash(r.raised) /\ UNCHANGED comparisons
        ELSE /\ comparisons' = r.value
             /\ IF r.value = <<>>
                THEN Fail(Line("No comparable metrics found"))
                ELSE /\ pc' = "print"
                     /\ UNCHANGED <<stdout, exitCode, uncaught>>
  /\ UNCHANGED <<args, files, baseline, current, ratio, regressions, outFile>>

PrintComparison ==
  /\ pc = "print"
  /\ steps' = Append(steps, "print_comparison")
  /\ stdout' = stdout \o print_comparison(comparisons)
  /\ pc' = "output"
  /\ UNCHANGED <<args, files, baseline, current, ratio, comparisons,
                 regressions, outFile, exitCode, uncaught>>

WriteOutput ==
  /\ pc = "output"
  /\ IF OutputRequested(args.output)
     THEN /\ steps' = Append(steps, "write_output")
          /\ IF files.output = "ok"
             THEN /\ outFile' = [written |-> TRUE, complete |-> TRUE,
                                 content |-> comparisons]
                  /\ stdout' = Append(stdout, [t |-> "Comparison saved to", a |-> args.output.path])
                  /\ pc' = "check"
                  /\ UNCHANGED <<exitCode, uncaught>>
             ELSE IF files.output = "unopenable"
             THEN Crash("OSError") /\ UNCHANGED outFile
             ELSE /\ \E n \in 0..Len(comparisons) :
                       outFile' = [written |-> TRUE, complete |-> FALSE,
                                   content |-> SubSeq(comparisons, 1, n)]
                  /\ Crash("OSError")
     ELSE /\ pc' = "check"
          /\ UNCHANGED <<steps, outFile, stdout, exitCode, uncaught>>
  /\ UNCHANGED <<args, files, baseline, current, ratio, comparisons, regressions>>

CheckRegressions ==
  /\ pc = "check"
  /\ IF args.fail_on_regression.given
     THEN LET found == check_regression(comparisons, args.fail_on_regression.q)
          IN /\ steps' = Append(steps, "check_regression")
             /\ regressions' = found
             /\ IF found # <<>>
                THEN /\ stdout' = Append(stdout, [t |-> "ERROR: Regressions detected",
                                                  a |-> args.fail_on_regression.q])
                                  \o [i \in 1..Len(found) |-> [t |-> "regression", a |-> found[i]]]
                     /\ exitCode' = 1
                ELSE /\ stdout' = Append(stdout, [t |-> "No regressions detected",
                                                  a |-> args.fail_on_regression.q])
                     /\ exitCode' = 0
     ELSE /\ exitCode' = 0
          /\ UNCHANGED <<steps, regressions, stdout>>
  /\ pc' = "exited"
  /\ UNCHANGED <<args, files, baseline, current, ratio, comparisons, outFile, uncaught>>

Next ==
  \/ LoadBaseline
  \/ LoadCurrent
  \/ Compare
  \/ PrintComparison
  \/ WriteOutput
  \/ CheckRegressions

Spec == Init /\ [][Next]_vars

(***************************************************************************)
(* Properties.                                                             *)
(***************************************************************************)
Exited == pc = "exited"
LastStep == IF steps = <<>> THEN "none" ELSE steps[Len(steps)]
Did(step) == \E i \in 1..Len(steps) : steps[i] = step
Pos(step) == CHOOSE i \in 1..Len(steps) : steps[i] = step
BothLoad == files.baseline.k = "json" /\ files.current.k = "json"

\* C1: main() exits with code 0 exactly when both files load, the comparison
\* set is non-empty and either --fail-on-regression was not given or
\* check_regression finds no regression; in every other outcome it exits 1.
C1_ExitCodeZeroExactlyOnSuccess ==
  Exited =>
    /\ exitCode \in {0, 1}
    /\ exitCode = 0 <=>
         /\ BothLoad
         /\ comparisons # <<>>
         /\ \/ ~args.fail_on_regression.given
            \/ check_regression(comparisons, args.fail_on_regression.q) = <<>>

\* the path names nothing; the contents are not well-formed JSON
PathDoesNotExist(file) == file.k \in {"missing", "notdir"}
NotJson(file) == file.k \in {"invalid", "undecodable"}
LoadFailed == LastStep \in {"load_baseline", "load_current"}

\* the error of the spec's list that ended the run, "none" when there is none
ErrorKind ==
  IF LastStep = "load_baseline" /\ PathDoesNotExist(files.baseline) THEN "FileNotFound"
  ELSE IF LastStep = "load_current" /\ PathDoesNotExist(files.current) THEN "FileNotFound"
  ELSE IF LastStep = "load_baseline" /\ NotJson(files.baseline) THEN "InvalidFormat"
  ELSE IF LastStep = "load_current" /\ NotJson(files.current) THEN "InvalidFormat"
  ELSE IF LastStep = "compare_results"
          /\ compare_results(baseline, current, args.metric) = Returned(<<>>)
  THEN "NoComparableMetrics"
  ELSE IF LastStep = "write_output" /\ files.output # "ok" THEN "WriteError"
  ELSE IF LastStep = "check_regression" /\ regressions # <<>> THEN "RegressionDetected"
  ELSE "none"

\* C8: every error kind (FileNotFound, InvalidFormat, NoComparableMetrics,
\* RegressionDetected, WriteError) is handled by main(): a message is printed,
\* the exit code is 1 and no exception escapes main().
C8_EveryErrorKindHandled ==
  (Exited /\ ErrorKind # "none") =>
    /\ uncaught = "none"
    /\ exitCode = 1
    /\ stdout # <<>>

\* C9: when the baseline path does not exist, main() prints the message that
\* names the path and exits 1, and nothing else is done: the current file is
\* not loaded, nothing is compared, printed, written or checked.
C9_MissingBaselineStopsThePipeline ==
  PathDoesNotExist(files.baseline) =>
    /\ steps \in {<<>>, <<"load_baseline">>}
    /\ current = EmptyDoc /\ comparisons = <<>> /\ regressions = <<>>
    /\ ~outFile.written
    /\ steps = <<"load_baseline">> =>
         /\ Exited /\ exitCode = 1 /\ uncaught = "none"
         /\ stdout = <<[t |-> "Error: Baseline file not found", a |-> args.baseline]>>

\* the ordering part of C10: the file is opened for writing only after the
\* table is printed, before the regression check, and only for a non-empty
\* comparison set; a load failure or "no comparable metrics" never opens it
OutputWriteInOrder ==
  /\ outFile.written =>
       /\ comparisons # <<>>
       /\ outFile.complete => outFile.content = comparisons
       /\ Did("print_comparison") /\ Did("write_output")
       /\ Pos("print_comparison") < Pos("write_output")
  /\ (Did("check_regression") /\ Did("write_output")) =>
       Pos("write_output") < Pos("check_regression")
  /\ (Exited /\ (LoadFailed \/ ErrorKind = "NoComparableMetrics")) =>
       exitCode = 1 /\ ~outFile.written /\ ~Did("write_output")

\* C10 as stated: the output file is written after the table is printed and
\* before the regression check, and only for a non-empty comparison set: a run
\* that ends on a detected regression has written it whenever --output was
\* given, a run that ends on a load failure or on "no comparable metrics" has
\* not.
C10_Original_OutputWrittenWheneverGiven ==
  /\ OutputWriteInOrder
  /\ (Did("check_regression") /\ args.output.given) =>
       outFile.written /\ outFile.complete
  /\ (Exited /\ ErrorKind = "RegressionDetected" /\ args.output.given) =>
       exitCode = 1 /\ outFile.written /\ outFile.complete

\* C10, amended: the same, for an --output that is given and not the empty
\* string (`if args.output:` skips the write for --output ""): a run that ends
\* on a detected regression has then written the whole file.
C10_OutputWrittenBetweenTableAndCheck ==
  /\ OutputWriteInOrder
  /\ (Did("check_regression") /\ OutputRequested(args.output)) =>
       outFile.written /\ outFile.complete
  /\ (Exited /\ ErrorKind = "RegressionDetected" /\ OutputRequested(args.output)) =>
       exitCode = 1 /\ outFile.written /\ outFile.complete
  /\ ~OutputRequested(args.output) => ~outFile.written /\ ~Did("write_output")

C10_Witness ==
  /\ Exited /\ ErrorKind = "RegressionDetected" /\ args.output.given
  /\ exitCode = 1 /\ outFile.written /\ outFile.complete
  /\ Len(outFile.content) = 2

Returns == pc = "returned"

\* the indices of the comparison set, in order, that the claim calls regressions
RegressedAt(q) ==
  {i \in 1..Len(comparisons) :
     /\ comparisons[i].change < 0
     /\ Abs(comparisons[i].change_pct.n) > 25 * q * comparisons[i].change_pct.d}

\* C2: check_regression reports exactly the metrics with change < 0 and
\* abs(change_pct) > threshold * 100, each once, in the comparison set's
\* order, all of them; a decrease of exactly threshold * 100 percent is not
\* reported.
C2_RegressionsExactlyTheDecreasesBeyondThreshold ==
  Returns =>
    LET q == args.fail_on_regression.q
        hits == RegressedAt(q)
    IN /\ Len(regressions) = Cardinality(hits)
       /\ \A i \in hits :
            LET nth == Cardinality({j \in hits : j <= i})
            IN /\ regressions[nth].metric = comparisons[i].metric
               /\ regressions[nth].baseline = 1000 * comparisons[i].baseline.v
               /\ regressions[nth].current = 1000 * comparisons[i].current.v
       /\ \A i \in 1..Len(comparisons) :
            (comparisons[i].change_pct.n = -25 * q * comparisons[i].change_pct.d)
              => \A n \in 1..Len(regressions) :
                   regressions[n].metric # comparisons[i].metric

C2_Witness ==
  /\ Returns /\ Len(comparisons) = 3 /\ Len(regressions) = 2
  /\ args.fail_on_regression.q = 1
  /\ comparisons[2].change = -1 /\ comparisons[2].change_pct = [n |-> -25, d |-> 1]
  /\ regressions[1].metric = comparisons[1].metric
  /\ regressions[2].metric = comparisons[3].metric

\* C3: in a document with a `summary` mapping, EffectDiscipline and Safety are
\* answered from summary.disciplineAdvantageRatio and
\* summary.safetyAdvantageRatio alone (no value when the key is missing, even
\* if `metrics` has an entry of that name); every other name is answered as
\* if the document had no `summary`.
C3_SummaryIsCheckedBeforeMetrics ==
  (Returns /\ baseline.summary.k = "dict") =>
    LET metric == args.metric.name
        d == baseline.summary.disciplineAdvantageRatio
        sf == baseline.summary.safetyAdvantageRatio
    IN /\ metric = "EffectDiscipline" => ratio = IF d.k = "absent" THEN Null ELSE d
       /\ metric = "Safety" => ratio = IF sf.k = "absent" THEN Null ELSE sf
       /\ metric \notin {"EffectDiscipline", "Safety"} =>
            /\ ~HasKey(baseline.metrics) => ratio = Null
            /\ baseline.metrics.k = "dict" =>
                 /\ \A i \in 1..Len(baseline.metrics.items) :
                      LET item == baseline.metrics.items[i]
                      IN item.name = metric =>
                           ratio = IF item.data.k # "dict"
                                   THEN [k |-> item.data.k, v |-> item.data.v]
                                   ELSE IF item.data.ratio.k = "absent" THEN Null
                                   ELSE item.data.ratio
                 /\ (\A i \in 1..Len(baseline.metrics.items) :
                       baseline.metrics.items[i].name # metric) => ratio = Null

C3_Witness ==
  /\ Returns /\ args.metric.name = "EffectDiscipline"
  /\ baseline.summary.k = "dict"
  /\ baseline.summary.disciplineAdvantageRatio = Num(MaxRatio - 1)
  /\ baseline.metrics.k = "dict"
  /\ \E i \in 1..Len(baseline.metrics.items) :
       /\ baseline.metrics.items[i].name = "EffectDiscipline"
       /\ baseline.metrics.items[i].data = Scalar(Num(MaxRatio))
  /\ ratio = Num(MaxRatio - 1)

\* C4: for every document, whatever the values under `summary` and `metrics`
\* are, get_metric_ratio returns a ratio or None and never raises.
C4_GetMetricRatioNeverRaises ==
  Returns => ~IsRaise(ratio)

\* a ratio that is a value (not None)
Present(x) == ~IsRaise(x) /\ x.k # "null"
BothPresent(metric) ==
  /\ Present(get_metric_ratio(baseline, metric))
  /\ Present(get_metric_ratio(current, metric))

\* C5: with a metric name given, the result of compare_results has exactly one
\* entry, keyed by that name, when both documents yield a value for it, and
\* is empty otherwise; it has no entry for any other name.
C5_SingleMetricModeOneEntryOrNone ==
  (Returns /\ args.metric.given) =>
    /\ BothPresent(args.metric.name) =>
         Len(comparisons) = 1 /\ comparisons[1].metric = args.metric.name
    /\ ~BothPresent(args.metric.name) => comparisons = <<>>
    /\ \A i \in 1..Len(comparisons) : comparisons[i].metric = args.metric.name

\* the baseline `metrics` names, in order, that both documents have a value for
ComparableAt ==
  {i \in 1..Len(baseline.metrics.items) : BothPresent(baseline.metrics.items[i].name)}

\* C6: with no metric name, the result of compare_results is empty when either
\* document has no `metrics` key, even if `summary` would give the ratios;
\* otherwise its keys are the baseline `metrics` names that both documents
\* have a value for, in the baseline mapping's order.
C6_AllMetricsModeFollowsBaselineMetrics ==
  (pc \in {"returned", "raised"} /\ ~args.metric.given) =>
    /\ (~HasKey(baseline.metrics) \/ ~HasKey(current.metrics)) =>
         Returns /\ comparisons = <<>>
    /\ (Returns /\ HasKey(baseline.metrics) /\ HasKey(current.metrics)) =>
         /\ Len(comparisons) = Cardinality(ComparableAt)
         /\ \A i \in ComparableAt :
              comparisons[Cardinality({j \in ComparableAt : j <= i})].metric
                = baseline.metrics.items[i].name

C6_Witness ==
  /\ Returns /\ ~args.metric.given
  /\ Len(baseline.metrics.items) = 2 /\ Len(current.metrics.items) = 2
  /\ baseline.metrics.items[1].name = current.metrics.items[2].name
  /\ baseline.summary.k = "absent" /\ current.summary.k = "absent"
  /\ Len(comparisons) = 2
  /\ comparisons[1].metric = baseline.metrics.items[1].name
  /\ comparisons[2].metric = baseline.metrics.items[2].name

\* C7: every entry of a result of compare_results is built from two present
\* numbers, the ratios of its metric in the two documents, with
\* change = current - baseline, improved iff change > 0, and
\* change_pct = change / baseline * 100, or 0 when the baseline is 0.
C7_EntriesAreTheDeltasOfTwoNumbers ==
  Returns =>
    \A i \in 1..Len(comparisons) :
      LET e == comparisons[i]
      IN /\ e.baseline.k = "num" /\ e.current.k = "num"
         /\ e.baseline = get_metric_ratio(baseline, e.metric)
         /\ e.current = get_metric_ratio(current, e.metric)
         /\ e.change = e.current.v - e.baseline.v
         /\ e.improved <=> e.change > 0
         /\ e.change_pct.d > 0
         /\ e.baseline.v # 0 =>
              e.change_pct.n * e.baseline.v = e.change * 100 * e.change_pct.d
         /\ e.baseline.v = 0 => e.change_pct = [n |-> 0, d |-> 1]

C7_Witness ==
  /\ Returns /\ Len(comparisons) = 2
  /\ comparisons[1].baseline = Num(0) /\ comparisons[1].current = Num(MaxRatio)
  /\ comparisons[1].change_pct = [n |-> 0, d |-> 1] /\ comparisons[1].improved
  /\ comparisons[2].baseline = Num(MaxRatio) /\ comparisons[2].current = Num(MaxRatio - 1)
  /\ comparisons[2].change = -1 /\ ~comparisons[2].improved

====
